---- MODULE Spec2Model ----
(***************************************************************************)
(* Model of the robot controller: the /ws/control WebSocket handler        *)
(* (src/src/main.rs) and the MotorControl state it drives                  *)
(* (src/src/motor.rs).  Several handler contexts run the handler           *)
(* concurrently; the motor state sits behind one std::sync::Mutex.         *)
(***************************************************************************)
EXTENDS Integers, Sequences, FiniteSets, TLC

\* ---------------------------------------------------------------- bounds
\* Number of concurrent handler contexts (WebSocket sessions).
NumHandlers == 2

Handlers == 1..NumHandlers

\* ------------------------------------------------------ program constants
\* Mutant of MAX_LEN: a limit one byte too large.
MAX_LEN_OffByOne == 128 + 1

\* main.rs:38  const MAX_LEN: usize = 128;
MAX_LEN == 128

\* ------------------------------------------------------------- the bytes
\* A message is the sequence of bytes of one frame.  ASCII codes of the
\* characters the command tokens are made of.
NUL == 0
SEP == 45

FWD == <<102, 119, 100>>
BACK == <<98, 97, 99, 107>>
LEFT == <<108, 101, 102, 116>>
RIGHT == <<114, 105, 103, 104, 116>>
DOWN == <<100, 111, 119, 110>>
UP == <<117, 112>>
XYZ == <<120, 121, 122>>
FWD_UPPER == <<70, 87, 68>>

Join(a, b) == a \o <<SEP>> \o b

Pad(s, n) == s \o [i \in 1..(n - Len(s)) |-> NUL]

\* The frames the transport delivers in the model.
Messages ==
    { Join(FWD, DOWN),                    \* "fwd-down"
      LEFT,                               \* "left"
      Join(BACK, UP),                     \* "back-up"
      <<>>,                               \* ""
      Join(XYZ, DOWN),                    \* "xyz-down"
      Join(FWD, XYZ),                     \* "fwd-xyz"
      Join(<<>>, UP),                     \* "-up"
      Join(RIGHT, DOWN) \o <<NUL>>,       \* "right-down\0"
      Join(Join(FWD, DOWN), UP),          \* "fwd-down-up"
      Join(FWD_UPPER, DOWN),              \* "FWD-down"
      <<102, 119, 100, 255>>,             \* "fwd" then a byte that is not UTF-8
      <<108, 101, 102, 116, 195>>,        \* "left" then half a character
      <<195, 169>>,                       \* a valid two-byte character
      Pad(Join(BACK, DOWN), 128),         \* 128 bytes: "back-down" and padding
      Pad(Join(FWD, DOWN), 129) }         \* 129 bytes

\* The frames of the runs with several handlers: two commands, a frame
\* that is too long and one that is not text.
ConcMessages ==
    { Join(FWD, DOWN),
      Join(BACK, UP),
      <<102, 119, 100, 255>>,
      Pad(Join(FWD, DOWN), 129) }

\* ------------------------------------------------------- pure operations
\* std::str::from_utf8 (main.rs:141): is the byte sequence well-formed
\* UTF-8.  Every byte that is not a continuation byte must lead a sequence
\* of the length it announces, followed by exactly that many continuation
\* bytes (the second one within the range the lead allows).
Cont(b) == b >= 128 /\ b <= 191

SeqLen(b) ==
    IF b <= 127 THEN 1
    ELSE IF b >= 194 /\ b <= 223 THEN 2
    ELSE IF b >= 224 /\ b <= 239 THEN 3
    ELSE IF b >= 240 /\ b <= 244 THEN 4
    ELSE 0

\* The offsets of `s` at which no well-formed sequence starts.
IllFormed(s) ==
    LET n == Len(s)
    IN  {i \in 1..n :
           IF Cont(s[i])
           THEN i = 1
           ELSE LET k == SeqLen(s[i])
                IN  ~ /\ k > 0
                      /\ i + k - 1 <= n
                      /\ \A j \in (i + 1)..(i + k - 1) : Cont(s[j])
                      /\ (i + k <= n => ~Cont(s[i + k]))
                      /\ (s[i] = 224 => s[i + 1] >= 160)
                      /\ (s[i] = 237 => s[i + 1] <= 159)
                      /\ (s[i] = 240 => s[i + 1] >= 144)
                      /\ (s[i] = 244 => s[i + 1] <= 143)}

\* Mutant of ValidUtf8: the bytes taken as text unchecked.
ValidUtf8_Unchecked(s) == TRUE

ValidUtf8(s) == IllFormed(s) = {}

\* command.trim_matches(char::from(0)) (main.rs:146): strip the NUL
\* characters at both ends.
TrimNul(s) ==
    LET keep == {i \in 1..Len(s) : s[i] # NUL}
    IN  IF keep = {} THEN <<>>
        ELSE LET first == CHOOSE i \in keep : \A j \in keep : i <= j
                 final == CHOOSE i \in keep : \A j \in keep : j <= i
             IN  SubSeq(s, first, final)

\* command.split('-') (main.rs:150): every maximal piece between
\* separators, in order; a text without separator is one piece.
\* Mutant of Split: the second piece keeps every later separator
\* (splitn(2, '-')).
Split_KeepRest(s) ==
    IF \E i \in 1..Len(s) : s[i] = SEP
    THEN LET i == CHOOSE k \in 1..Len(s) :
                      s[k] = SEP /\ \A j \in 1..(k - 1) : s[j] # SEP
         IN  <<SubSeq(s, 1, i - 1), SubSeq(s, i + 1, Len(s))>>
    ELSE <<s>>

RECURSIVE Split(_)
Split(s) ==
    IF \E i \in 1..Len(s) : s[i] = SEP
    THEN LET i == CHOOSE k \in 1..Len(s) :
                      s[k] = SEP /\ \A j \in 1..(k - 1) : s[j] # SEP
         IN  <<SubSeq(s, 1, i - 1)>> \o Split(SubSeq(s, i + 1, Len(s)))
    ELSE <<s>>

\* Mutant of ParseDirection: an unrecognized token taken as "fwd".
ParseDirection_Default(tok) ==
    IF tok = BACK THEN "Back"
    ELSE IF tok = LEFT THEN "Left"
    ELSE IF tok = RIGHT THEN "Right"
    ELSE "Forward"

\* The match on the direction token (main.rs:155-164).
ParseDirection(tok) ==
    IF tok = FWD THEN "Forward"
    ELSE IF tok = BACK THEN "Back"
    ELSE IF tok = LEFT THEN "Left"
    ELSE IF tok = RIGHT THEN "Right"
    ELSE "None"

\* Mutant of ParseState: the two values exchanged.
ParseState_Swapped(tok) ==
    IF tok = DOWN THEN "false"
    ELSE IF tok = UP THEN "true"
    ELSE "None"

\* The match on the state token (main.rs:177-183).
ParseState(tok) ==
    IF tok = DOWN THEN "true"
    ELSE IF tok = UP THEN "false"
    ELSE "None"

\* MotorControl::set_direction (motor.rs:34-55): the level each direction
\* writes to the left and to the right direction pin.
LeftLevel(d) ==
    CASE d = "Forward" -> "high"
      [] d = "Back"    -> "low"
      [] d = "Left"    -> "low"
      [] d = "Right"   -> "high"

\* Mutant of RightLevel: the right pin written with the left pin's level.
RightLevel_AsLeft(d) == LeftLevel(d)

RightLevel(d) ==
    CASE d = "Forward" -> "high"
      [] d = "Back"    -> "low"
      [] d = "Left"    -> "high"
      [] d = "Right"   -> "low"

\* ------------------------------------------------------------------ state
VARIABLES
    left_dir,    \* level of the left direction pin  (MotorControl.left_dir)
    right_dir,   \* level of the right direction pin (MotorControl.right_dir)
    left_step,   \* left PWM channel enabled         (MotorControl.left_step)
    right_step,  \* right PWM channel enabled        (MotorControl.right_step)
    holder,      \* handler holding the motor_control mutex, 0 when free
    poisoned,    \* the mutex was held by a handler that panicked
    crashed,     \* a panic aborted the process
    pc,          \* pc[h]: where handler h stands ("closed": no session)
    msg,         \* msg[h]: the frame handler h is handling
    command,     \* command[h]: what is left of the split iterator
    direction,   \* direction[h]: the local `direction`
    state,       \* state[h]: the enable value matched from the state token
    diag,        \* diag[h]: the error! lines the invocation has logged
    returned,    \* returned[h]: what the last invocation of h returned,
                 \* whether it sent a Close frame and what it logged
    trace,       \* trace[h]: the actuator writes of the current invocation
    pre,         \* pre[h]: the motor state when h acquired the mutex
    last         \* the command that released the mutex last, as long as
                 \* no invocation has panicked

motor_vars == <<left_dir, right_dir, left_step, right_step>>
lock_vars == <<holder, poisoned>>
local_vars == <<msg, command, direction, state, diag, trace, pre>>
vars == <<left_dir, right_dir, left_step, right_step, holder, poisoned,
          crashed, pc, msg, command, direction, state, diag, returned,
          trace, pre, last>>

Levels == {"low", "high"}

\* The motor state as one value.
Motor == [left_dir |-> left_dir, right_dir |-> right_dir,
          left_enabled |-> left_step, right_enabled |-> right_step]

NoMsg == <<NUL - 1>>

NoMotor == [left_dir |-> "low", right_dir |-> "low",
            left_enabled |-> FALSE, right_enabled |-> FALSE]

NoCmd == [msg |-> NoMsg, pre |-> NoMotor, post |-> NoMotor,
          waiting |-> {}]

NoRet == [value |-> "none", close |-> FALSE, logged |-> <<>>]

Ret(value, close, logged) ==
    [value |-> value, close |-> close, logged |-> logged]

Write(out, val, ok) == [out |-> out, val |-> val, ok |-> ok]

\* Mutant of Init: the left channel is left enabled at start-up.
Init_Enabled ==
    /\ left_dir \in Levels
    /\ right_dir \in Levels
    /\ left_step = TRUE
    /\ right_step = FALSE
    /\ holder = 0
    /\ poisoned = FALSE
    /\ crashed = FALSE
    /\ pc = [h \in Handlers |-> "closed"]
    /\ msg = [h \in Handlers |-> NoMsg]
    /\ command = [h \in Handlers |-> <<>>]
    /\ direction = [h \in Handlers |-> "None"]
    /\ state = [h \in Handlers |-> "None"]
    /\ diag = [h \in Handlers |-> <<>>]
    /\ returned = [h \in Handlers |-> NoRet]
    /\ trace = [h \in Handlers |-> <<>>]
    /\ pre = [h \in Handlers |-> NoMotor]
    /\ last = NoCmd

\* main (main.rs:63-73): both channels disabled; the direction pins are
\* only configured as outputs, their level is whatever the pin holds.
Init ==
    /\ left_dir \in Levels
    /\ right_dir \in Levels
    /\ left_step = FALSE
    /\ right_step = FALSE
    /\ holder = 0
    /\ poisoned = FALSE
    /\ crashed = FALSE
    /\ pc = [h \in Handlers |-> "closed"]
    /\ msg = [h \in Handlers |-> NoMsg]
    /\ command = [h \in Handlers |-> <<>>]
    /\ direction = [h \in Handlers |-> "None"]
    /\ state = [h \in Handlers |-> "None"]
    /\ diag = [h \in Handlers |-> <<>>]
    /\ returned = [h \in Handlers |-> NoRet]
    /\ trace = [h \in Handlers |-> <<>>]
    /\ pre = [h \in Handlers |-> NoMotor]
    /\ last = NoCmd

\* The locals of an invocation that has ended.
Drop(h) ==
    /\ msg' = [msg EXCEPT ![h] = NoMsg]
    /\ command' = [command EXCEPT ![h] = <<>>]
    /\ direction' = [direction EXCEPT ![h] = "None"]
    /\ state' = [state EXCEPT ![h] = "None"]
    /\ diag' = [diag EXCEPT ![h] = <<>>]
    /\ trace' = [trace EXCEPT ![h] = <<>>]
    /\ pre' = [pre EXCEPT ![h] = NoMotor]

\* ---------------------------------------------------------------- actions
\* ws.is_new() (main.rs:121-123).
SessionOpen(h) ==
    /\ ~crashed
    /\ pc[h] = "closed"
    /\ pc' = [pc EXCEPT ![h] = "idle"]
    /\ returned' = [returned EXCEPT ![h] = Ret("Ok", FALSE, <<>>)]
    /\ UNCHANGED <<motor_vars, lock_vars, local_vars, crashed, last>>

\* Mutant of SessionClose: both motors are disabled when a session closes.
SessionClose_Disable(h) ==
    /\ ~crashed
    /\ pc[h] = "idle"
    /\ pc' = [pc EXCEPT ![h] = "closed"]
    /\ returned' = [returned EXCEPT ![h] = Ret("Ok", FALSE, <<>>)]
    /\ left_step' = FALSE
    /\ right_step' = FALSE
    /\ UNCHANGED <<left_dir, right_dir, lock_vars, local_vars, crashed, last>>

\* ws.is_closed() (main.rs:124-126).
SessionClose(h) ==
    /\ ~crashed
    /\ pc[h] = "idle"
    /\ pc' = [pc EXCEPT ![h] = "closed"]
    /\ returned' = [returned EXCEPT ![h] = Ret("Ok", FALSE, <<>>)]
    /\ UNCHANGED <<motor_vars, lock_vars, local_vars, crashed, last>>

\* The first ws.recv, which reports the frame's length (main.rs:129-132),
\* succeeds: the invocation goes on with frame m.
RecvLen(h, m) ==
    /\ ~crashed
    /\ pc[h] = "idle"
    /\ pc' = [pc EXCEPT ![h] = "recvd"]
    /\ msg' = [msg EXCEPT ![h] = m]
    /\ returned' = [returned EXCEPT ![h] = NoRet]
    /\ UNCHANGED <<motor_vars, lock_vars, command, direction, diag, state,
                   trace, pre, crashed, last>>

\* The first ws.recv fails (main.rs:131): the error is returned.
RecvLenErr(h) ==
    /\ ~crashed
    /\ pc[h] = "idle"
    /\ returned' = [returned EXCEPT ![h] = Ret("Err", FALSE, <<>>)]
    /\ UNCHANGED <<motor_vars, lock_vars, local_vars, crashed, pc, last>>

\* len > MAX_LEN (main.rs:134-137): a Close frame is sent and the size
\* error returned; when the send fails, its error is returned instead.
SizeViolation(h) ==
    /\ ~crashed
    /\ pc[h] = "recvd"
    /\ Len(msg[h]) > MAX_LEN
    /\ \E sent \in BOOLEAN :
          returned' = [returned EXCEPT
                         ![h] = Ret(IF sent THEN "ErrInvalidSize" ELSE "Err",
                                    sent, <<>>)]
    /\ pc' = [pc EXCEPT ![h] = "idle"]
    /\ Drop(h)
    /\ UNCHANGED <<motor_vars, lock_vars, crashed, last>>

\* The second ws.recv, which reads the payload into buf (main.rs:139-140),
\* succeeds.
RecvPayload(h) ==
    /\ ~crashed
    /\ pc[h] = "recvd"
    /\ Len(msg[h]) <= MAX_LEN
    /\ pc' = [pc EXCEPT ![h] = "decode"]
    /\ UNCHANGED <<motor_vars, lock_vars, local_vars, crashed, returned, last>>

\* The second ws.recv fails (main.rs:140): the error is returned.
RecvPayloadErr(h) ==
    /\ ~crashed
    /\ pc[h] = "recvd"
    /\ Len(msg[h]) <= MAX_LEN
    /\ returned' = [returned EXCEPT ![h] = Ret("Err", FALSE, <<>>)]
    /\ pc' = [pc EXCEPT ![h] = "idle"]
    /\ Drop(h)
    /\ UNCHANGED <<motor_vars, lock_vars, crashed, last>>

\* from_utf8 fails (main.rs:141-144): logged, Ok returned.
DecodeErr(h) ==
    /\ ~crashed
    /\ pc[h] = "decode"
    /\ ~ValidUtf8(msg[h])
    /\ returned' = [returned EXCEPT
                      ![h] = Ret("Ok", FALSE,
                                 <<"Could not parse request as UTF-8">>)]
    /\ pc' = [pc EXCEPT ![h] = "idle"]
    /\ Drop(h)
    /\ UNCHANGED <<motor_vars, lock_vars, crashed, last>>

\* The payload is text (main.rs:141-150): trimmed and split.
Decode(h) ==
    /\ ~crashed
    /\ pc[h] = "decode"
    /\ ValidUtf8(msg[h])
    /\ command' = [command EXCEPT ![h] = Split(TrimNul(msg[h]))]
    /\ pc' = [pc EXCEPT ![h] = "lock"]
    /\ UNCHANGED <<motor_vars, lock_vars, crashed, msg, direction, diag, state,
                   returned, trace, pre, last>>

\* Mutant of LockFree: a lock that excludes nobody.
LockFree_NoExclusion == TRUE

\* Mutex::lock (main.rs:152) grants the mutex only when no handler holds it.
LockFree == holder = 0

\* motor_control.lock().expect(..) on a sound mutex, then the match on
\* the first token (main.rs:152-168).
Lock(h) ==
    /\ ~crashed
    /\ pc[h] = "lock"
    /\ LockFree
    /\ ~poisoned
    /\ holder' = h
    /\ pre' = [pre EXCEPT ![h] = Motor]
    /\ LET d == IF command[h] = <<>> THEN "None"
                ELSE ParseDirection(Head(command[h]))
       IN  /\ direction' = [direction EXCEPT ![h] = d]
           /\ pc' = [pc EXCEPT ![h] = IF d = "None" THEN "state"
                                      ELSE "dir_left"]
           /\ diag' = [diag EXCEPT
                         ![h] = IF command[h] = <<>>
                                THEN Append(@, "Did not get a direction")
                                ELSE IF d = "None"
                                THEN Append(@, "Invalid command received")
                                ELSE @]
    /\ command' = [command EXCEPT ![h] = IF command[h] = <<>> THEN <<>>
                                        ELSE Tail(command[h])]
    /\ UNCHANGED <<motor_vars, poisoned, crashed, msg, state, returned,
                   trace, last>>

\* Mutant of LockPoisoned: the poison is ignored and the guard used
\* (PoisonError::into_inner).
LockPoisoned_Ignored(h) ==
    /\ ~crashed
    /\ pc[h] = "lock"
    /\ LockFree
    /\ poisoned
    /\ holder' = h
    /\ pre' = [pre EXCEPT ![h] = Motor]
    /\ LET d == IF command[h] = <<>> THEN "None"
                ELSE ParseDirection(Head(command[h]))
       IN  /\ direction' = [direction EXCEPT ![h] = d]
           /\ pc' = [pc EXCEPT ![h] = IF d = "None" THEN "state"
                                      ELSE "dir_left"]
    /\ command' = [command EXCEPT ![h] = IF command[h] = <<>> THEN <<>>
                                        ELSE Tail(command[h])]
    /\ UNCHANGED <<motor_vars, poisoned, crashed, msg, diag, state, returned,
                   trace, last>>

\* lock() on a poisoned mutex returns Err with the guard inside; expect
\* panics (main.rs:152).
LockPoisoned(h) ==
    /\ ~crashed
    /\ pc[h] = "lock"
    /\ LockFree
    /\ poisoned
    /\ holder' = h
    /\ pre' = [pre EXCEPT ![h] = Motor]
    /\ pc' = [pc EXCEPT ![h] = "panic_lock"]
    /\ UNCHANGED <<motor_vars, poisoned, crashed, msg, command, direction, diag,
                   state, returned, trace, last>>

\* Mutant of DirLeft: the error of a failed first write is swallowed and
\* the closure goes on.
DirLeft_Swallowed(h) ==
    /\ ~crashed
    /\ pc[h] = "dir_left"
    /\ \E ok \in BOOLEAN :
          LET v == LeftLevel(direction[h])
          IN  /\ trace' = [trace EXCEPT
                             ![h] = Append(@, Write("left_dir", v, ok))]
              /\ left_dir' = IF ok THEN v ELSE left_dir
              /\ pc' = [pc EXCEPT ![h] = IF ok THEN "dir_right" ELSE "state"]
    /\ UNCHANGED <<right_dir, left_step, right_step, lock_vars, crashed, msg,
                   command, direction, diag, state, returned, pre, last>>

\* Mutant of DirLeft: after the left pin the closure goes straight to the
\* state token, and the right pin is not written.
DirLeft_SkipRight(h) ==
    /\ ~crashed
    /\ pc[h] = "dir_left"
    /\ \E ok \in BOOLEAN :
          LET v == LeftLevel(direction[h])
          IN  /\ trace' = [trace EXCEPT
                             ![h] = Append(@, Write("left_dir", v, ok))]
              /\ left_dir' = IF ok THEN v ELSE left_dir
              /\ pc' = [pc EXCEPT ![h] = IF ok THEN "state" ELSE "panic_dir"]
    /\ UNCHANGED <<right_dir, left_step, right_step, lock_vars, crashed, msg,
                   command, direction, diag, state, returned, pre, last>>

\* set_direction, first write: self.left_dir.set_high()/set_low()
\* (motor.rs:37,41,45,49); its failure makes expect panic (main.rs:173).
DirLeft(h) ==
    /\ ~crashed
    /\ pc[h] = "dir_left"
    /\ \E ok \in BOOLEAN :
          LET v == LeftLevel(direction[h])
          IN  /\ trace' = [trace EXCEPT
                             ![h] = Append(@, Write("left_dir", v, ok))]
              /\ left_dir' = IF ok THEN v ELSE left_dir
              /\ pc' = [pc EXCEPT ![h] = IF ok THEN "dir_right"
                                         ELSE "panic_dir"]
    /\ UNCHANGED <<right_dir, left_step, right_step, lock_vars, crashed, msg,
                   command, direction, diag, state, returned, pre, last>>

\* Mutant of DirRight: a failed second write puts the left pin back.
DirRight_Rollback(h) ==
    /\ ~crashed
    /\ pc[h] = "dir_right"
    /\ \E ok \in BOOLEAN :
          LET v == RightLevel(direction[h])
          IN  /\ trace' = [trace EXCEPT
                             ![h] = Append(@, Write("right_dir", v, ok))]
              /\ right_dir' = IF ok THEN v ELSE right_dir
              /\ left_dir' = IF ok THEN left_dir ELSE pre[h].left_dir
              /\ pc' = [pc EXCEPT ![h] = IF ok THEN "state" ELSE "panic_dir"]
    /\ UNCHANGED <<left_step, right_step, lock_vars, crashed, msg, command,
                   direction, diag, state, returned, pre, last>>

\* set_direction, second write: self.right_dir.set_high()/set_low()
\* (motor.rs:38,42,46,50).
DirRight(h) ==
    /\ ~crashed
    /\ pc[h] = "dir_right"
    /\ \E ok \in BOOLEAN :
          LET v == RightLevel(direction[h])
          IN  /\ trace' = [trace EXCEPT
                             ![h] = Append(@, Write("right_dir", v, ok))]
              /\ right_dir' = IF ok THEN v ELSE right_dir
              /\ pc' = [pc EXCEPT ![h] = IF ok THEN "state" ELSE "panic_dir"]
    /\ UNCHANGED <<left_dir, left_step, right_step, lock_vars, crashed, msg,
                   command, direction, diag, state, returned, pre, last>>

\* The match on the second token (main.rs:176-184).
State(h) ==
    /\ ~crashed
    /\ pc[h] = "state"
    /\ LET s == IF command[h] = <<>> THEN "None"
                ELSE ParseState(Head(command[h]))
       IN  /\ state' = [state EXCEPT ![h] = s]
           /\ pc' = [pc EXCEPT ![h] = IF s = "None" THEN "ret" ELSE "en_left"]
           /\ diag' = [diag EXCEPT
                         ![h] = IF command[h] # <<>> /\ s = "None"
                                THEN Append(@, "Invalid button state")
                                ELSE @]
    /\ command' = [command EXCEPT ![h] = IF command[h] = <<>> THEN <<>>
                                        ELSE Tail(command[h])]
    /\ UNCHANGED <<motor_vars, lock_vars, crashed, msg, direction, returned,
                   trace, pre, last>>

\* set_enable, first write: self.left_step.enable()/disable()
\* (motor.rs:24,27); its failure makes expect panic (main.rs:178-179).
EnLeft(h) ==
    /\ ~crashed
    /\ pc[h] = "en_left"
    /\ \E ok \in BOOLEAN :
          LET v == (state[h] = "true")
          IN  /\ trace' = [trace EXCEPT
                             ![h] = Append(@, Write("left_step", v, ok))]
              /\ left_step' = IF ok THEN v ELSE left_step
              /\ pc' = [pc EXCEPT ![h] = IF ok THEN "en_right"
                                         ELSE "panic_step"]
    /\ UNCHANGED <<left_dir, right_dir, right_step, lock_vars, crashed, msg,
                   command, direction, diag, state, returned, pre, last>>

\* Mutant of EnRight: the right channel toggled instead of set.
EnRight_Toggle(h) ==
    /\ ~crashed
    /\ pc[h] = "en_right"
    /\ \E ok \in BOOLEAN :
          LET v == ~right_step
          IN  /\ trace' = [trace EXCEPT
                             ![h] = Append(@, Write("right_step", v, ok))]
              /\ right_step' = IF ok THEN v ELSE right_step
              /\ pc' = [pc EXCEPT ![h] = IF ok THEN "ret" ELSE "panic_step"]
    /\ UNCHANGED <<left_dir, right_dir, left_step, lock_vars, crashed, msg,
                   command, direction, diag, state, returned, pre, last>>

\* set_enable, second write: self.right_step.enable()/disable()
\* (motor.rs:25,28).
EnRight(h) ==
    /\ ~crashed
    /\ pc[h] = "en_right"
    /\ \E ok \in BOOLEAN :
          LET v == (state[h] = "true")
          IN  /\ trace' = [trace EXCEPT
                             ![h] = Append(@, Write("right_step", v, ok))]
              /\ right_step' = IF ok THEN v ELSE right_step
              /\ pc' = [pc EXCEPT ![h] = IF ok THEN "ret" ELSE "panic_step"]
    /\ UNCHANGED <<left_dir, right_dir, left_step, lock_vars, crashed, msg,
                   command, direction, diag, state, returned, pre, last>>

\* Handler g is inside an invocation that has received its frame.
InFlight(g) == pc[g] \notin {"closed", "idle", "dead"}

\* Mutant of Return: the guard is leaked and the mutex stays locked.
Return_KeepLock(h) ==
    /\ ~crashed
    /\ pc[h] = "ret"
    /\ returned' = [returned EXCEPT ![h] = Ret("Ok", FALSE, diag[h])]
    /\ pc' = [pc EXCEPT ![h] = "idle"]
    /\ last' = [msg |-> msg[h], pre |-> pre[h], post |-> Motor,
           waiting |-> {g \in Handlers \ {h} : InFlight(g)}]
    /\ Drop(h)
    /\ UNCHANGED <<motor_vars, lock_vars, crashed>>

\* Ok(()) (main.rs:186): the guard is dropped, the mutex released.
Return(h) ==
    /\ ~crashed
    /\ pc[h] = "ret"
    /\ holder' = IF holder = h THEN 0 ELSE holder
    /\ returned' = [returned EXCEPT ![h] = Ret("Ok", FALSE, diag[h])]
    /\ pc' = [pc EXCEPT ![h] = "idle"]
    /\ last' = [msg |-> msg[h], pre |-> pre[h], post |-> Motor,
           waiting |-> {g \in Handlers \ {h} : InFlight(g)}]
    /\ Drop(h)
    /\ UNCHANGED <<motor_vars, poisoned, crashed>>

Panicking(h) == pc[h] \in {"panic_lock", "panic_dir", "panic_step"}

\* A panic (expect on an Err) where the build aborts on panic: the
\* process ends, and every handler context with it.
PanicAbort(h) ==
    /\ ~crashed
    /\ Panicking(h)
    /\ crashed' = TRUE
    /\ pc' = [g \in Handlers |-> "dead"]
    /\ msg' = [g \in Handlers |-> NoMsg]
    /\ command' = [g \in Handlers |-> <<>>]
    /\ direction' = [g \in Handlers |-> "None"]
    /\ state' = [g \in Handlers |-> "None"]
    /\ diag' = [g \in Handlers |-> <<>>]
    /\ trace' = [g \in Handlers |-> <<>>]
    /\ pre' = [g \in Handlers |-> NoMotor]
    /\ returned' = [g \in Handlers |-> NoRet]
    /\ last' = NoCmd
    /\ UNCHANGED <<motor_vars, lock_vars>>

\* A panic where the build unwinds: the guard is dropped while panicking,
\* which poisons and releases the mutex; the invocation ends.
PanicUnwind(h) ==
    /\ ~crashed
    /\ Panicking(h)
    /\ holder' = IF holder = h THEN 0 ELSE holder
    /\ poisoned' = TRUE
    /\ returned' = [returned EXCEPT ![h] = Ret("panic", FALSE, diag[h])]
    /\ pc' = [pc EXCEPT ![h] = "idle"]
    /\ Drop(h)
    /\ last' = NoCmd
    /\ UNCHANGED <<motor_vars, crashed>>

\* One step of handler h, the frames it may receive drawn from M.
Step(h, M) ==
    \/ SessionOpen(h)
    \/ SessionClose(h)
    \/ \E m \in M : RecvLen(h, m)
    \/ RecvLenErr(h)
    \/ SizeViolation(h)
    \/ RecvPayload(h)
    \/ RecvPayloadErr(h)
    \/ DecodeErr(h)
    \/ Decode(h)
    \/ Lock(h)
    \/ LockPoisoned(h)
    \/ DirLeft(h)
    \/ DirRight(h)
    \/ State(h)
    \/ EnLeft(h)
    \/ EnRight(h)
    \/ Return(h)
    \/ PanicAbort(h)
    \/ PanicUnwind(h)

\* Every handler context runs, concurrently.
Next == \E h \in Handlers : Step(h, ConcMessages)

Spec == Init /\ [][Next]_vars

\* One client: a single handler context, every frame of Messages.
NextOne == Step(1, Messages)

SpecOne == Init /\ [][NextOne]_vars

\* The steps of handler h inside an invocation, the lock apart: each is
\* straight-line code of the closure and is taken once the thread runs.
Run(h) ==
    \/ SizeViolation(h)
    \/ RecvPayload(h)
    \/ RecvPayloadErr(h)
    \/ DecodeErr(h)
    \/ Decode(h)
    \/ DirLeft(h)
    \/ DirRight(h)
    \/ State(h)
    \/ EnLeft(h)
    \/ EnRight(h)
    \/ Return(h)
    \/ PanicAbort(h)
    \/ PanicUnwind(h)

\* The return of lock() (main.rs:152), with the guard or with the poison.
Acquire(h) == Lock(h) \/ LockPoisoned(h)

\* Fair scheduling: a handler thread that can run does run, and a thread
\* waiting for the mutex gets it when it is free again and again.
Fairness ==
    \A h \in Handlers : WF_vars(Run(h)) /\ SF_vars(Acquire(h))

SpecFair == Spec /\ Fairness

\* ------------------------------------------------- the closure, run alone
\* The intent of a text command: the direction matched from the first
\* piece and the enable value matched from the second (main.rs:150-184).
IntentOf(m) ==
    LET toks == Split(TrimNul(m))
    IN  [direction |-> ParseDirection(toks[1]),
         enable |-> IF Len(toks) >= 2 THEN ParseState(toks[2]) ELSE "None"]

\* The motor state the closure leaves when it handles command m from motor
\* state s with no other handler running and no write failing:
\* set_direction when a direction was matched, then set_enable when an
\* enable value was matched (main.rs:170-184, motor.rs:22-55).
SerialHandle(m, s) ==
    LET i == IntentOf(m)
        s1 == IF i.direction = "None" THEN s
              ELSE [s EXCEPT !.left_dir = LeftLevel(i.direction),
                             !.right_dir = RightLevel(i.direction)]
    IN  IF i.enable = "None" THEN s1
        ELSE [s1 EXCEPT !.left_enabled = (i.enable = "true"),
                        !.right_enabled = (i.enable = "true")]

\* ------------------------------------------------------------------ claims
\* Handler b has made every write of its command and still holds the mutex,
\* and its command was in flight when the command recorded in `last`
\* released the mutex: the two commands were handled concurrently.
ConcurrentPair(b) ==
    /\ pc[b] = "ret"
    /\ last # NoCmd
    /\ b \in last.waiting
    /\ IntentOf(msg[b]) # IntentOf(last.msg)

\* C1: when two commands with different intents are handled concurrently
\* by two handler contexts and no write fails, the motor state after both
\* is the state one of the two serial orders produces from the state the
\* first of them started from.
C1_SerialOrder ==
    \A b \in Handlers :
       ConcurrentPair(b) =>
          Motor \in { SerialHandle(msg[b], SerialHandle(last.msg, last.pre)),
                      SerialHandle(last.msg, SerialHandle(msg[b], last.pre)) }

\* C1 witness: a concurrent pair for which the two serial orders differ.
C1_Witness ==
    \E b \in Handlers :
       /\ ConcurrentPair(b)
       /\ SerialHandle(msg[b], SerialHandle(last.msg, last.pre))
             # SerialHandle(last.msg, SerialHandle(msg[b], last.pre))

\* The places of the closure between the lock and its release.
Holding == {"dir_left", "dir_right", "state", "en_left", "en_right", "ret",
            "panic_lock", "panic_dir", "panic_step"}

\* C9: a handler holds the mutex from before its first actuator write
\* until after its last one has completed or failed, and while a command
\* has made a write and not yet released, no other command has made one.
C9_WritesUnderLock ==
    \A h \in Handlers :
       (pc[h] \in Holding \/ trace[h] # <<>>) =>
          /\ holder = h
          /\ \A g \in Handlers \ {h} : trace[g] = <<>> /\ pc[g] \notin Holding

\* C9 witness: one handler is between two of its writes while another
\* waits for the mutex.
C9_Witness ==
    \E h, g \in Handlers :
       /\ h # g
       /\ pc[h] = "dir_right"
       /\ Len(trace[h]) = 1
       /\ pc[g] = "lock"

\* C2: when set_direction(d) has made both writes, the direction pins hold
\* the row of d: Forward (high, high), Back (low, low), Left (low, high),
\* Right (high, low).
C2_DirectionTable ==
    \A h \in Handlers :
       (pc[h] = "state" /\ direction[h] # "None") =>
          /\ Len(trace[h]) = 2
          /\ <<direction[h], left_dir, right_dir>> \in
                { <<"Forward", "high", "high">>,
                  <<"Back", "low", "low">>,
                  <<"Left", "low", "high">>,
                  <<"Right", "high", "low">> }

\* C2 witness: set_direction(Right) has returned, called from the state
\* (low, high).
C2_Witness ==
    \E h \in Handlers :
       /\ pc[h] = "state"
       /\ direction[h] = "Right"
       /\ pre[h].left_dir = "low"
       /\ pre[h].right_dir = "high"
       /\ <<left_dir, right_dir>> = <<"high", "low">>

\* The frames of Messages with what the closure must match in each:
\* the direction and the enable value.
Expected ==
    { <<Join(FWD, DOWN), "Forward", "true">>,
      <<LEFT, "Left", "None">>,
      <<Join(BACK, UP), "Back", "false">>,
      <<<<>>, "None", "None">>,
      <<Join(XYZ, DOWN), "None", "true">>,
      <<Join(FWD, XYZ), "Forward", "None">>,
      <<Join(<<>>, UP), "None", "false">>,
      <<Join(RIGHT, DOWN) \o <<NUL>>, "Right", "true">>,
      <<Join(Join(FWD, DOWN), UP), "Forward", "true">>,
      <<Join(FWD_UPPER, DOWN), "None", "true">>,
      <<<<195, 169>>, "None", "None">>,
      <<Pad(Join(BACK, DOWN), 128), "Back", "true">> }

\* The places of the closure after both tokens have been matched.
Matched == {"en_left", "en_right", "ret"}

\* C3: the direction and the enable value the closure matches are those
\* of the token table, and depend on the frame only: "fwd-down" gives
\* (Forward, true), "left" (Left, none), "back-up" (Back, false), the
\* empty command (none, none); the match is case-sensitive.
C3_ParseTable ==
    \A h \in Handlers :
       pc[h] \in Matched => <<msg[h], direction[h], state[h]>> \in Expected

\* C3 witness: "back-up" has been matched as (Back, false).
C3_Witness ==
    \E h \in Handlers :
       /\ pc[h] = "ret"
       /\ msg[h] = Join(BACK, UP)
       /\ direction[h] = "Back"
       /\ state[h] = "false"

\* The outputs the invocation of h has written, in order.
Outs(h) == [i \in 1..Len(trace[h]) |-> trace[h][i].out]

\* C4, the state when the closure is about to return: a frame whose
\* direction token is unrecognized and whose state token is valid has
\* written the enable outputs only, and one whose direction token is valid
\* and whose state token is unrecognized the direction pins only; each
\* unrecognized token is logged.
C4_AtReturn ==
    \A h \in Handlers :
       pc[h] = "ret" =>
          /\ msg[h] \in {Join(XYZ, DOWN), Join(FWD_UPPER, DOWN)} =>
                /\ left_step /\ right_step
                /\ Outs(h) = <<"left_step", "right_step">>
                /\ left_dir = pre[h].left_dir /\ right_dir = pre[h].right_dir
                /\ diag[h] = <<"Invalid command received">>
          /\ msg[h] = Join(<<>>, UP) =>
                /\ ~left_step /\ ~right_step
                /\ Outs(h) = <<"left_step", "right_step">>
                /\ left_dir = pre[h].left_dir /\ right_dir = pre[h].right_dir
                /\ diag[h] = <<"Invalid command received">>
          /\ msg[h] = Join(FWD, XYZ) =>
                /\ left_dir = "high" /\ right_dir = "high"
                /\ Outs(h) = <<"left_dir", "right_dir">>
                /\ left_step = pre[h].left_enabled
                /\ right_step = pre[h].right_enabled
                /\ diag[h] = <<"Invalid button state">>

\* C4, the return: the closure returns Ok.
C4_Returns ==
    \A h \in Handlers :
       (pc[h] = "ret" /\ pc'[h] # "ret") =>
          /\ pc'[h] = "idle"
          /\ returned'[h] = Ret("Ok", FALSE, diag[h])

\* C4: an unrecognized token only removes its own field from the intent,
\* the other field is applied, and the closure returns success.
C4_UnrecognizedToken == [](C4_AtReturn) /\ [][C4_Returns]_vars

\* C4 witness: "xyz-down" has enabled both motors, which were disabled.
C4_Witness ==
    \E h \in Handlers :
       /\ pc[h] = "ret"
       /\ msg[h] = Join(XYZ, DOWN)
       /\ ~pre[h].left_enabled /\ ~pre[h].right_enabled
       /\ left_step /\ right_step

\* C5: a failed actuator write only drops its command: the process does
\* not crash and the mutex can still be acquired by later commands.
C5_FailureDropsCommand == ~crashed /\ ~poisoned

\* The frame handler h has received is longer than 128 bytes.
Oversize(h) == Len(msg[h]) > 128

\* C6, the state: a frame longer than 128 bytes gets no further than the
\* length check; it is never split, its handler never holds the mutex and
\* never writes.
C6_NeverParsed ==
    \A h \in Handlers :
       Oversize(h) =>
          /\ pc[h] = "recvd"
          /\ holder # h
          /\ command[h] = <<>>
          /\ trace[h] = <<>>

\* The step that leaves the length check on a frame longer than 128 bytes
\* ends the invocation with `ret` and changes neither the motor state nor
\* the mutex.
C6_Ends(h, rets) ==
    (pc[h] = "recvd" /\ Oversize(h) /\ pc'[h] # "recvd") =>
       /\ pc'[h] = "idle"
       /\ returned'[h] \in rets
       /\ Motor' = Motor
       /\ holder' = holder /\ poisoned' = poisoned /\ crashed' = crashed

\* A frame of at most 128 bytes is not rejected for its size.
C6_Accepted(h) ==
    (pc[h] = "recvd" /\ ~Oversize(h) /\ pc'[h] # "recvd") =>
       /\ returned'[h].value # "ErrInvalidSize"
       /\ ~returned'[h].close

\* C6 as stated: a frame longer than 128 bytes is never parsed; the closure
\* sends a Close frame and returns the size error, without the mutex and
\* without a write; a frame of at most 128 bytes is not rejected for size.
C6_Stated ==
    /\ [](C6_NeverParsed)
    /\ [][\A h \in Handlers :
             /\ C6_Ends(h, {Ret("ErrInvalidSize", TRUE, <<>>)})
             /\ C6_Accepted(h)]_vars

\* C6 amended: as stated, except that when sending the Close frame fails
\* the closure returns the error of the send, and no Close frame was sent.
C6_SizeViolation ==
    /\ [](C6_NeverParsed)
    /\ [][\A h \in Handlers :
             /\ C6_Ends(h, {Ret("ErrInvalidSize", TRUE, <<>>),
                            Ret("Err", FALSE, <<>>)})
             /\ C6_Accepted(h)]_vars

\* C6 witness: an invocation has sent Close and returned the size error
\* while both motors were enabled, and they still are.
C6_Witness ==
    \E h \in Handlers :
       /\ pc[h] = "idle"
       /\ returned[h] = Ret("ErrInvalidSize", TRUE, <<>>)
       /\ left_step /\ right_step

\* The frames of Messages that are not UTF-8 text.
NotText == { <<102, 119, 100, 255>>, <<108, 101, 102, 116, 195>> }

\* C7, the state: a frame that is not UTF-8 text gets no further than the
\* decoding; it is never split, its handler never holds the mutex and
\* never writes.
C7_NeverParsed ==
    \A h \in Handlers :
       msg[h] \in NotText =>
          /\ pc[h] \in {"recvd", "decode"}
          /\ holder # h
          /\ command[h] = <<>>
          /\ trace[h] = <<>>

\* C7, the step: decoding such a frame logs the condition and returns Ok,
\* and changes neither the motor state nor the mutex.
C7_Dropped ==
    \A h \in Handlers :
       (pc[h] = "decode" /\ msg[h] \in NotText /\ pc'[h] # "decode") =>
          /\ pc'[h] = "idle"
          /\ returned'[h] =
                Ret("Ok", FALSE, <<"Could not parse request as UTF-8">>)
          /\ Motor' = Motor
          /\ holder' = holder /\ poisoned' = poisoned /\ crashed' = crashed

\* C7: a frame that is not valid UTF-8 produces no intent: the closure
\* returns success, never takes the mutex and writes nothing.
C7_MalformedText == [](C7_NeverParsed) /\ [][C7_Dropped]_vars

\* C7 witness: an invocation has dropped a frame that is not text while
\* both motors were enabled, and they still are.
C7_Witness ==
    \E h \in Handlers :
       /\ pc[h] = "idle"
       /\ returned[h] =
             Ret("Ok", FALSE, <<"Could not parse request as UTF-8">>)
       /\ left_step /\ right_step

\* C8: when a command is handled right after the same command and no
\* write fails, the motor state it leaves is the one the first handling
\* left.
C8_Idempotent ==
    \A h \in Handlers :
       (pc[h] = "ret" /\ last # NoCmd /\ last.msg = msg[h]) =>
          Motor = last.post

\* C8 witness: "fwd-down" has been handled twice in a row, and the first
\* handling changed the motor state.
C8_Witness ==
    \E h \in Handlers :
       /\ pc[h] = "ret"
       /\ msg[h] = Join(FWD, DOWN)
       /\ last # NoCmd
       /\ last.msg = msg[h]
       /\ last.pre # last.post

\* The orders in which one invocation writes the outputs.
WriteOrders ==
    { <<>>,
      <<"left_dir">>,
      <<"left_dir", "right_dir">>,
      <<"left_dir", "right_dir", "left_step">>,
      <<"left_dir", "right_dir", "left_step", "right_step">>,
      <<"left_step">>,
      <<"left_step", "right_step">> }

\* C10: set_direction and set_enable write left, then right, and stop at
\* the first error.  When the first write fails the right output is not
\* written; when the second fails the left output holds the new value and
\* the right output the previous one.  A failed write is not repeated and
\* nothing is put back.
C10_PartialWrite ==
    \A h \in Handlers :
       LET n == Len(trace[h])
           newLeft == IF direction[h] \in {"Forward", "Right"}
                      THEN "high" ELSE "low"
       IN  /\ Outs(h) \in WriteOrders
           /\ \A i \in 1..n :
                 ~trace[h][i].ok => (i = n /\ Panicking(h))
           /\ pc[h] = "panic_dir" =>
                 /\ left_step = pre[h].left_enabled
                 /\ right_step = pre[h].right_enabled
                 /\ right_dir = pre[h].right_dir
                 /\ trace[h][n].out = "left_dir" =>
                       left_dir = pre[h].left_dir
                 /\ trace[h][n].out = "right_dir" =>
                       left_dir = newLeft
           /\ pc[h] = "panic_step" =>
                 /\ right_step = pre[h].right_enabled
                 /\ trace[h][n].out = "left_step" =>
                       left_step = pre[h].left_enabled
                 /\ trace[h][n].out = "right_step" =>
                       left_step = (state[h] = "true")

\* C10 witness: the second write of set_direction has failed after the
\* first changed the left pin.
C10_Witness ==
    \E h \in Handlers :
       /\ pc[h] = "panic_dir"
       /\ Len(trace[h]) = 2
       /\ left_dir # pre[h].left_dir
       /\ right_dir = pre[h].right_dir

\* Handler h has made a direction write that failed.
DirectionFailed(h) ==
    \E i \in 1..Len(trace[h]) :
       /\ trace[h][i].out \in {"left_dir", "right_dir"}
       /\ ~trace[h][i].ok

\* C11, the state: once a direction write of a command has failed, the
\* command is at the panic of expect("Could not set direction"): its state
\* token has not been matched, it has made no enable write and written no
\* output twice, and the enabled flags are the ones it found.
C11_NoEnableAfter ==
    \A h \in Handlers :
       DirectionFailed(h) =>
          /\ pc[h] = "panic_dir"
          /\ state[h] = "None"
          /\ Outs(h) \in {<<"left_dir">>, <<"left_dir", "right_dir">>}
          /\ left_step = pre[h].left_enabled
          /\ right_step = pre[h].right_enabled

\* C11, the step: the panic ends the invocation (or the process) without
\* a further write and without returning Ok.
C11_Ends ==
    \A h \in Handlers :
       (pc[h] = "panic_dir" /\ pc'[h] # "panic_dir") =>
          /\ pc'[h] \in {"idle", "dead"}
          /\ Motor' = Motor
          /\ returned'[h].value # "Ok"

\* C11: a failure of set_direction is fatal for the command: set_enable is
\* never performed after it and the failed write is not retried.
C11_DirectionFatal == [](C11_NoEnableAfter) /\ [][C11_Ends]_vars

\* C11 witness: "back-up" has failed a direction write while both motors
\* were enabled, and they still are.
C11_Witness ==
    \E h \in Handlers :
       /\ DirectionFailed(h)
       /\ msg[h] = Join(BACK, UP)
       /\ left_step /\ right_step

\* No actuator write has failed so far: a failed write panics, and the
\* panic either ends the process or poisons the mutex for good.
NoWriteFailed ==
    /\ ~crashed
    /\ ~poisoned
    /\ \A h \in Handlers : \A i \in 1..Len(trace[h]) : trace[h][i].ok

\* C12: as long as no actuator write has failed, whenever no handler holds
\* the mutex the two motors have the same enabled flag.
C12_EnabledTogether ==
    (NoWriteFailed /\ holder = 0) => (left_step = right_step)

\* C12 witness: no write has failed, the mutex is free and both motors are
\* enabled.
C12_Witness ==
    /\ NoWriteFailed
    /\ holder = 0
    /\ left_step /\ right_step

\* The second piece of the frame handler h is handling is the token tok.
StateToken(h, tok) ==
    LET t == TrimNul(msg[h])
        seps == {i \in 1..Len(t) : t[i] = SEP}
    IN  /\ seps # {}
        /\ LET a == CHOOSE i \in seps : \A j \in seps : i <= j
               rest == SubSeq(t, a + 1, Len(t))
               more == {i \in 1..Len(rest) : rest[i] = SEP}
               b == IF more = {} THEN Len(rest) + 1
                    ELSE CHOOSE i \in more : \A j \in more : i <= j
           IN  SubSeq(rest, 1, b - 1) = tok

\* C13, the step: a motor becomes enabled only by the enable write of a
\* command whose state token is "down", and a command whose state token is
\* "up" that completes its two writes leaves both motors disabled.
C13_Step ==
    /\ (left_step' /\ ~left_step) =>
          \E h \in Handlers : pc[h] = "en_left" /\ StateToken(h, DOWN)
    /\ (right_step' /\ ~right_step) =>
          \E h \in Handlers : pc[h] = "en_right" /\ StateToken(h, DOWN)
    /\ \A h \in Handlers :
          (pc[h] = "en_right" /\ pc'[h] = "ret" /\ StateToken(h, UP)) =>
             (~left_step' /\ ~right_step')

\* C13: the motors start disabled and become enabled only through a
\* command with the state token "down"; no other event enables a motor.
C13_EnabledByDown ==
    /\ ~left_step /\ ~right_step
    /\ [][C13_Step]_vars

\* C13 witness: "fwd-down" found both motors disabled and has left both
\* enabled.
C13_Witness ==
    /\ last # NoCmd
    /\ last.msg = Join(FWD, DOWN)
    /\ ~last.pre.left_enabled /\ ~last.pre.right_enabled
    /\ left_step /\ right_step

\* The positions in handler h's trace of its writes to the outputs outs.
WritesTo(h, outs) == {i \in 1..Len(trace[h]) : trace[h][i].out \in outs}

\* C14: in a command with a recognized direction and a recognized state
\* token, an enable write is made only after both direction writes have
\* been made and have succeeded; no direction write follows an enable
\* write.
C14_DirectionFirst ==
    \A h \in Handlers :
       LET dirs == WritesTo(h, {"left_dir", "right_dir"})
           ens == WritesTo(h, {"left_step", "right_step"})
       IN  /\ \A i \in dirs : \A j \in ens : i < j
           /\ (direction[h] # "None" /\ ens # {}) =>
                 /\ dirs = {1, 2}
                 /\ trace[h][1] =
                       Write("left_dir", LeftLevel(direction[h]), TRUE)
                 /\ trace[h][2] =
                       Write("right_dir", RightLevel(direction[h]), TRUE)
                 /\ left_dir = LeftLevel(direction[h])
                 /\ right_dir = RightLevel(direction[h])

\* C14 witness: "back-up" has made its two direction writes and then its
\* first enable write.
C14_Witness ==
    \E h \in Handlers :
       /\ msg[h] = Join(BACK, UP)
       /\ Outs(h) = <<"left_dir", "right_dir", "left_step">>

\* The first piece of the frame handler h is handling is the token tok.
DirectionToken(h, tok) ==
    LET t == TrimNul(msg[h])
        seps == {i \in 1..Len(t) : t[i] = SEP}
        a == IF seps = {} THEN Len(t) + 1
             ELSE CHOOSE i \in seps : \A j \in seps : i <= j
    IN  SubSeq(t, 1, a - 1) = tok

\* The frame handler h is handling has a recognized direction token, has a
\* state token at all, has a recognized state token.
KnownDirection(h) ==
    \E tok \in {FWD, BACK, LEFT, RIGHT} : DirectionToken(h, tok)

HasStateToken(h) ==
    LET t == TrimNul(msg[h])
    IN  \E i \in 1..Len(t) : t[i] = SEP

KnownState(h) == \E tok \in {DOWN, UP} : StateToken(h, tok)

\* C15: when a command has made all its writes, none failing: with a
\* recognized direction and no state token both enabled flags are the ones
\* it found; with the state token as its only recognized token both
\* direction levels are the ones it found; with no recognized token the
\* whole motor state is the one it found.
C15_FrameConditions ==
    \A h \in Handlers :
       pc[h] = "ret" =>
          /\ (KnownDirection(h) /\ ~HasStateToken(h)) =>
                /\ left_step = pre[h].left_enabled
                /\ right_step = pre[h].right_enabled
                /\ Outs(h) = <<"left_dir", "right_dir">>
          /\ (~KnownDirection(h) /\ KnownState(h)) =>
                /\ left_dir = pre[h].left_dir
                /\ right_dir = pre[h].right_dir
                /\ Outs(h) = <<"left_step", "right_step">>
          /\ (~KnownDirection(h) /\ ~KnownState(h)) =>
                /\ Motor = pre[h]
                /\ Outs(h) = <<>>

\* C15 witness: the empty command has been handled to the end with both
\* motors enabled.
C15_Witness ==
    \E h \in Handlers :
       /\ pc[h] = "ret"
       /\ msg[h] = <<>>
       /\ ~KnownDirection(h) /\ ~KnownState(h)
       /\ left_step /\ right_step

\* The number of separators in the command of handler h.
Separators(h) ==
    LET t == TrimNul(msg[h])
    IN  Cardinality({i \in 1..Len(t) : t[i] = SEP})

\* When handler h has matched both tokens, the direction is the one of the
\* first piece of its command and the enable value the one of the second
\* piece, whatever follows them.
C16_Intent(h) ==
    pc[h] = "ret" =>
       /\ direction[h] = IF DirectionToken(h, FWD) THEN "Forward"
                         ELSE IF DirectionToken(h, BACK) THEN "Back"
                         ELSE IF DirectionToken(h, LEFT) THEN "Left"
                         ELSE IF DirectionToken(h, RIGHT) THEN "Right"
                         ELSE "None"
       /\ state[h] = IF StateToken(h, DOWN) THEN "true"
                     ELSE IF StateToken(h, UP) THEN "false"
                     ELSE "None"

\* C16: the closure takes at most two pieces of the split, the first as
\* direction token and the second as state token; the pieces a command
\* with two or more separators has beyond them are never taken, and the
\* intent is the one of the first two pieces.
C16_FirstTwoPieces ==
    \A h \in Handlers :
       /\ pc[h] = "lock" => Len(command[h]) = Separators(h) + 1
       /\ pc[h] = "ret" =>
             Len(command[h]) = IF Separators(h) >= 1 THEN Separators(h) - 1
                               ELSE 0
       /\ C16_Intent(h)

\* C16 witness: "fwd-down-up" has been handled as "fwd-down": the motors,
\* found disabled, are enabled, and the piece "up" is left untaken.
C16_Witness ==
    \E h \in Handlers :
       /\ pc[h] = "ret"
       /\ msg[h] = Join(Join(FWD, DOWN), UP)
       /\ command[h] = <<UP>>
       /\ ~pre[h].left_enabled
       /\ left_step /\ right_step

\* C17, the state: once the mutex is poisoned no handler is between the
\* lock and the return; a handler whose lock() failed has matched no token
\* and made no write, and the motor state is the one it found.
C17_NothingApplied ==
    /\ poisoned =>
          \A h \in Handlers :
             pc[h] \notin {"dir_left", "dir_right", "state", "en_left",
                           "en_right", "ret"}
    /\ \A h \in Handlers :
          pc[h] = "panic_lock" =>
             /\ poisoned
             /\ trace[h] = <<>>
             /\ direction[h] = "None" /\ state[h] = "None"
             /\ Motor = pre[h]

\* C17, the step: on a poisoned mutex the lock leads to the panic only,
\* and the panic ends the invocation (or the process) without a write and
\* without returning Ok.
C17_Ends ==
    \A h \in Handlers :
       /\ (pc[h] = "lock" /\ poisoned /\ pc'[h] # "lock") =>
             /\ pc'[h] \in {"panic_lock", "dead"}
             /\ Motor' = Motor
       /\ (pc[h] = "panic_lock" /\ pc'[h] # "panic_lock") =>
             /\ pc'[h] \in {"idle", "dead"}
             /\ Motor' = Motor
             /\ returned'[h].value # "Ok"

\* C17: when lock() fails on a poisoned mutex the invocation is aborted
\* before anything parsed is applied: no direction write, no enable write,
\* the motor state unchanged.
C17_PoisonedLock == [](C17_NothingApplied) /\ [][C17_Ends]_vars

\* C17 witness: "fwd-down" has met a poisoned mutex while the motors were
\* disabled, and they still are.
C17_Witness ==
    \E h \in Handlers :
       /\ pc[h] = "panic_lock"
       /\ msg[h] = Join(FWD, DOWN)
       /\ ~left_step /\ ~right_step

C19_Step ==
    \A h \in Handlers :
       (\/ pc[h] = "closed" /\ pc'[h] = "idle"
        \/ pc[h] = "idle" /\ pc'[h] = "closed") =>
          /\ Motor' = Motor
          /\ holder' = holder /\ poisoned' = poisoned /\ crashed' = crashed
          /\ trace'[h] = <<>>
          /\ returned'[h] = Ret("Ok", FALSE, <<>>)

\* C19: the opening and the closing of a session leave the motor state
\* unchanged and never take the mutex; motors enabled when a session
\* closes stay enabled.
C19_SessionEvents == [][C19_Step]_vars

\* C19 witness: every session has closed and both motors are enabled.
C19_Witness ==
    /\ \A h \in Handlers :
          pc[h] = "closed" /\ returned[h] = Ret("Ok", FALSE, <<>>)
    /\ left_step /\ right_step

====
